---- MODULE Spec2Model ----
(***************************************************************************)
(* The session manager of packages/tldraw/src/lib/state/session/session.ts *)
(* (class Session): one optional slot `current`, a notifier callback       *)
(* `onSessionChange`, and the operations begin, update, complete, cancel,  *)
(* quietlyComplete and the getter isInSession.                             *)
(*                                                                         *)
(* The manager's caller is modelled as a sequence of top-level calls.      *)
(* Session objects, argument tuples and the values a session's complete    *)
(* produces are small integers.  The callbacks the manager invokes (the    *)
(* session's update/complete/cancel and the notifier) are external code:   *)
(* each invocation either returns or raises; which one is an input of the  *)
(* call.  Spec draws callbacks that return (the capability contract);      *)
(* SpecRaise also draws callbacks that raise.                              *)
(***************************************************************************)
EXTENDS Integers, Sequences, FiniteSets, TLC

\* ------------------------------------------------------------- bounds
NumSessions == 2     \* distinct session objects the caller may pass to begin
NumArgs     == 2     \* distinct argument tuples for update/complete/cancel
NumResults  == 2     \* distinct non-undefined values a session's complete may produce
MaxCalls    == 4     \* top-level calls made on one manager

\* ------------------------------------------------------------- values
\* `private current?: BaseSession`: the slot holds a session or undefined.
undefined == 0
Sessions  == 1..NumSessions
Args      == 1..NumArgs
\* what a session's complete(...args) may produce: a command, or undefined (void)
Results   == {undefined} \cup (1..NumResults)

\* how one callback invocation ends
Returning == {"return"}
Outcomes  == {"return", "raise"}

\* the two errors the manager itself throws, and an error raised inside a callback
CannotBeginError     == "Cannot begin a session until the current session is complete."
NoCurrentSessionError == "No current session."
CallbackError        == "raised by callback"
NoError              == "none"

\* what a call gives back to its caller
This         == [kind |-> "this", val |-> undefined]       \* `return this`
Value(v)     == [kind |-> "value", val |-> v]              \* `return finalCommand`
Nothing      == [kind |-> "none", val |-> undefined]       \* the call raised
Flag(b)      == [kind |-> "boolean", val |-> IF b THEN 1 ELSE 0]   \* the getter's result

\* one invocation of a session capability made by the manager:
\* cap.call(target, ...arg), and the value it produced (undefined for void / raise)
Invocation(cap, target, arg, result) ==
  [cap |-> cap, target |-> target, arg |-> arg, result |-> result]

VARIABLES
  current,        \* this.current
  last,           \* the most recent top-level call: what was called, and what it did
  lastTerminal,   \* the most recent begin/complete/cancel/quietlyComplete call
  calls,          \* number of top-level calls made so far
  count,          \* totals over all calls: notifier invocations, successful begins, ...
  cycle,          \* what happened since the most recent begin that stored a session
  begun,          \* the session of the most recent successful begin, and what it received since
  frames,         \* the calls in progress (a call is in progress while a callback it invoked runs)
  ctx,            \* where the most recently finished call was made from
  step            \* the kind of the most recent step of a call in progress

vars == <<current, last, lastTerminal, calls, count, cycle, begun, frames, ctx, step>>

\* the variables that record calls made one whole call at a time
callVars == <<lastTerminal, count, cycle, begun>>
\* the variables that record calls made one callback at a time
stepVars == <<frames, ctx, step>>

\* get isInSession() { return this.current !== undefined }
isInSession == current /= undefined

\* ---------------------------------------------------- effect of a call
\* The effect of one call on the manager, as the code produces it:
\*   cur      - this.current when the call ends
\*   outcome  - "returned" or "raised"
\*   error    - the error raised (NoError when it returned)
\*   ret      - the value returned
\*   invoked  - the session capability invocations made, in order
\*   observed - this.current as seen by each notifier invocation, in order
Effect(cur, outcome, error, ret, invoked, observed) ==
  [cur |-> cur, outcome |-> outcome, error |-> error, ret |-> ret,
   invoked |-> invoked, observed |-> observed]

Returned(cur, ret, invoked, observed) ==
  Effect(cur, "returned", NoError, ret, invoked, observed)

Raised(cur, error, invoked, observed) ==
  Effect(cur, "raised", error, Nothing, invoked, observed)

\* ------------------------------------------------------- the operations
\* Faulty variant of begin: the guard is missing, so a second begin silently
\* replaces the session that is held.
begin_replaces(session, nOut) ==
  IF nOut = "raise"
    THEN Raised(session, CallbackError, <<>>, <<session>>)
    ELSE Returned(session, This, <<>>, <<session>>)

\* Faulty variant of begin: the notifier is not invoked.
begin_silent(session, nOut) ==
  IF current /= undefined
    THEN Raised(current, CannotBeginError, <<>>, <<>>)
    ELSE Returned(session, This, <<>>, <<>>)

\* Faulty variant of begin: the notifier is invoked before the guard.
begin_notifiesFirst(session, nOut) ==
  IF nOut = "raise"
    THEN Raised(current, CallbackError, <<>>, <<current>>)
    ELSE IF current /= undefined
      THEN Raised(current, CannotBeginError, <<>>, <<current>>)
      ELSE Returned(session, This, <<>>, <<current>>)

\* begin(session): throws while a session is held; otherwise stores the
\* session, invokes the notifier and returns this.  nOut is how the notifier ends.
\* The guard is `if (this.current)`: a BaseSession is an object, so it is truthy
\* exactly when the slot is not undefined.
begin(session, nOut) ==
  IF current /= undefined
    THEN Raised(current, CannotBeginError, <<>>, <<>>)
    ELSE IF nOut = "raise"
      THEN Raised(session, CallbackError, <<>>, <<session>>)
      ELSE Returned(session, This, <<>>, <<session>>)

\* Faulty variant of update: written with optional chaining like complete and
\* cancel, so it does not throw when no session is held.
update_lenient(args, cOut, nOut) ==
  LET invoked == IF current /= undefined
                   THEN <<Invocation("update", current, args, undefined)>>
                   ELSE <<>>
  IN IF current /= undefined /\ cOut = "raise"
       THEN Raised(current, CallbackError, invoked, <<>>)
       ELSE IF nOut = "raise"
         THEN Raised(current, CallbackError, invoked, <<current>>)
         ELSE Returned(current, This, invoked, <<current>>)

\* Faulty variant of update: the arguments are not forwarded to the session.
update_dropsArgs(args, cOut, nOut) ==
  LET call == Invocation("update", current, undefined, undefined)
  IN IF current = undefined
       THEN Raised(current, NoCurrentSessionError, <<>>, <<>>)
       ELSE IF cOut = "raise"
         THEN Raised(current, CallbackError, <<call>>, <<>>)
         ELSE IF nOut = "raise"
           THEN Raised(current, CallbackError, <<call>>, <<current>>)
           ELSE Returned(current, This, <<call>>, <<current>>)

\* update(...args): throws when no session is held; otherwise forwards args to
\* the session's update, invokes the notifier and returns this.
\* cOut is how the session's update ends, nOut how the notifier ends.
update(args, cOut, nOut) ==
  LET session == current
      call    == Invocation("update", current, args, undefined)
  IN IF session = undefined
       THEN Raised(current, NoCurrentSessionError, <<>>, <<>>)
       ELSE IF cOut = "raise"
         THEN Raised(current, CallbackError, <<call>>, <<>>)
         ELSE IF nOut = "raise"
           THEN Raised(current, CallbackError, <<call>>, <<current>>)
           ELSE Returned(current, This, <<call>>, <<current>>)

\* Faulty variant of complete: returns this (like the other operations)
\* instead of the value the session's complete produced.
complete_returnsThis(args, r, cOut) ==
  IF current /= undefined
    THEN IF cOut = "raise"
      THEN Raised(current, CallbackError,
                  <<Invocation("complete", current, args, undefined)>>, <<>>)
      ELSE Returned(undefined, This,
                    <<Invocation("complete", current, args, r)>>, <<>>)
    ELSE Returned(undefined, This, <<>>, <<>>)

\* Faulty variant of complete: throws like update when no session is held.
complete_strict(args, r, cOut) ==
  IF current /= undefined
    THEN IF cOut = "raise"
      THEN Raised(current, CallbackError,
                  <<Invocation("complete", current, args, undefined)>>, <<>>)
      ELSE Returned(undefined, Value(r),
                    <<Invocation("complete", current, args, r)>>, <<>>)
    ELSE Raised(current, NoCurrentSessionError, <<>>, <<>>)

\* Faulty variant of complete: invokes the notifier after clearing the slot,
\* like cancel.
complete_notifies(args, r, cOut) ==
  IF current /= undefined
    THEN IF cOut = "raise"
      THEN Raised(current, CallbackError,
                  <<Invocation("complete", current, args, undefined)>>, <<>>)
      ELSE Returned(undefined, Value(r),
                    <<Invocation("complete", current, args, r)>>, <<undefined>>)
    ELSE Returned(undefined, Value(undefined), <<>>, <<undefined>>)

\* Faulty variant of complete: the slot is not cleared.
complete_keeps(args, r, cOut) ==
  IF current /= undefined
    THEN IF cOut = "raise"
      THEN Raised(current, CallbackError,
                  <<Invocation("complete", current, args, undefined)>>, <<>>)
      ELSE Returned(current, Value(r),
                    <<Invocation("complete", current, args, r)>>, <<>>)
    ELSE Returned(current, Value(undefined), <<>>, <<>>)

\* complete(...args): finalCommand = this.current?.complete.call(this.current, ...args);
\* clears the slot; returns finalCommand.  r is the value the session's complete
\* produces and cOut how it ends.
complete(args, r, cOut) ==
  IF current /= undefined
    THEN IF cOut = "raise"
      THEN Raised(current, CallbackError,
                  <<Invocation("complete", current, args, undefined)>>, <<>>)
      ELSE Returned(undefined, Value(r),
                    <<Invocation("complete", current, args, r)>>, <<>>)
    ELSE Returned(undefined, Value(undefined), <<>>, <<>>)

\* Faulty variant of cancel: the notifier is not invoked.
cancel_silent(args, cOut, nOut) ==
  LET invoked == IF current /= undefined
                   THEN <<Invocation("cancel", current, args, undefined)>>
                   ELSE <<>>
  IN IF current /= undefined /\ cOut = "raise"
       THEN Raised(current, CallbackError, invoked, <<>>)
       ELSE Returned(undefined, This, invoked, <<>>)

\* Faulty variant of cancel: returns early, before the notifier, when no
\* session is held.
cancel_earlyReturn(args, cOut, nOut) ==
  IF current = undefined
    THEN Returned(undefined, This, <<>>, <<>>)
    ELSE IF cOut = "raise"
      THEN Raised(current, CallbackError,
                  <<Invocation("cancel", current, args, undefined)>>, <<>>)
      ELSE IF nOut = "raise"
        THEN Raised(undefined, CallbackError,
                    <<Invocation("cancel", current, args, undefined)>>, <<undefined>>)
        ELSE Returned(undefined, This,
                      <<Invocation("cancel", current, args, undefined)>>, <<undefined>>)

\* Faulty variant of cancel: the slot is not cleared.
cancel_keeps(args, cOut, nOut) ==
  LET invoked == IF current /= undefined
                   THEN <<Invocation("cancel", current, args, undefined)>>
                   ELSE <<>>
  IN IF current /= undefined /\ cOut = "raise"
       THEN Raised(current, CallbackError, invoked, <<>>)
       ELSE IF nOut = "raise"
         THEN Raised(current, CallbackError, invoked, <<current>>)
         ELSE Returned(current, This, invoked, <<current>>)

\* cancel(...args): this.current?.cancel.call(this.current, ...args); clears the
\* slot; invokes the notifier; returns this.
cancel(args, cOut, nOut) ==
  LET invoked == IF current /= undefined
                   THEN <<Invocation("cancel", current, args, undefined)>>
                   ELSE <<>>
  IN IF current /= undefined /\ cOut = "raise"
       THEN Raised(current, CallbackError, invoked, <<>>)
       ELSE IF nOut = "raise"
         THEN Raised(undefined, CallbackError, invoked, <<undefined>>)
         ELSE Returned(undefined, This, invoked, <<undefined>>)

\* Faulty variant of quietlyComplete: the slot is not cleared.
quietlyComplete_keeps ==
  Returned(current, This, <<>>, <<>>)

\* Faulty variant of quietlyComplete: the session's cancel is invoked before
\* the slot is cleared.
quietlyComplete_cancels ==
  Returned(undefined, This,
           IF current /= undefined
             THEN <<Invocation("cancel", current, undefined, undefined)>>
             ELSE <<>>,
           <<>>)

\* quietlyComplete(): clears the slot and returns this.
quietlyComplete ==
  Returned(undefined, This, <<>>, <<>>)

\* Faulty variant of the getter: reading it resets the manager.
isInSessionGet_resets ==
  Returned(undefined, Flag(current /= undefined), <<>>, <<>>)

\* the getter read by a caller: returns this.current !== undefined.
isInSessionGet ==
  Returned(current, Flag(isInSession), <<>>, <<>>)

\* ------------------------------------------------------------ the caller
Terminal == {"begin", "complete", "cancel", "quietlyComplete"}

\* a call made by the manager's caller, outside any callback
TopLevel == [depth |-> 0, in |-> "none", by |-> "none", intact |-> TRUE]

NoCycle ==
  [session |-> undefined, pure |-> FALSE, callArgs |-> <<>>,
   invoked |-> <<>>, notified |-> 0]

\* cycle after the call: a begin that returns opens a cycle; the cycle stays
\* `pure` while it consists of that begin, update calls that return, and a
\* complete that returns.  Any other call ends the record of the cycle.
NextCycle(op, arg, eff) ==
  IF op = "begin" /\ eff.outcome = "returned"
    THEN [session |-> arg, pure |-> TRUE, callArgs |-> <<>>,
          invoked |-> eff.invoked, notified |-> Len(eff.observed)]
    ELSE IF op = "isInSession" THEN cycle
    ELSE IF cycle.pure /\ op \in {"update", "complete"} /\ eff.outcome = "returned"
      THEN [session  |-> cycle.session,
            pure     |-> TRUE,
            callArgs |-> IF op = "update" THEN Append(cycle.callArgs, arg)
                                          ELSE cycle.callArgs,
            invoked  |-> cycle.invoked \o eff.invoked,
            notified |-> cycle.notified + Len(eff.observed)]
      ELSE NoCycle

Bump(n, cond) == IF cond THEN n + 1 ELSE n

\* number of invocations in invs of a capability in caps on the session target
RECURSIVE CountInvocations(_, _, _)
CountInvocations(invs, caps, target) ==
  IF invs = <<>> THEN 0
  ELSE Bump(CountInvocations(Tail(invs), caps, target),
            Head(invs).cap \in caps /\ Head(invs).target = target)

NotBegun == [session |-> undefined, cleared |-> TRUE, ends |-> 0, late |-> 0]

\* begun after the call: a begin that returns names the session; afterwards
\* `cleared` tells whether the slot has been cleared since, `ends` counts the
\* complete/cancel invocations that session received, and `late` the
\* invocations it received after the slot was cleared or after a
\* complete/cancel invocation.
NextBegun(op, arg, eff) ==
  IF op = "begin" /\ eff.outcome = "returned"
    THEN [session |-> arg, cleared |-> FALSE, ends |-> 0, late |-> 0]
    ELSE [session |-> begun.session,
          cleared |-> begun.cleared \/ eff.cur = undefined,
          ends    |-> begun.ends
                      + CountInvocations(eff.invoked, {"complete", "cancel"}, begun.session),
          late    |-> IF begun.cleared \/ begun.ends >= 1
                        THEN begun.late
                             + CountInvocations(eff.invoked, {"update", "complete", "cancel"},
                                                begun.session)
                        ELSE begun.late]

\* One top-level call op(arg) made by the caller, with the effect eff the
\* manager's code produces: the slot is updated and the call is recorded.
Step(op, arg, eff) ==
  /\ calls < MaxCalls
  /\ calls' = calls + 1
  /\ current' = eff.cur
  /\ last' = [op |-> op, arg |-> arg, pre |-> current,
              outcome |-> eff.outcome, error |-> eff.error, ret |-> eff.ret,
              invoked |-> eff.invoked, observed |-> eff.observed]
  /\ lastTerminal' = IF op \in Terminal THEN op ELSE lastTerminal
  /\ count' = [notify |-> count.notify + Len(eff.observed),
               begin  |-> Bump(count.begin, op = "begin" /\ eff.outcome = "returned"),
               update |-> Bump(count.update, op = "update" /\ eff.outcome = "returned"),
               cancel |-> Bump(count.cancel, op = "cancel")]
  /\ cycle' = NextCycle(op, arg, eff)
  /\ begun' = NextBegun(op, arg, eff)
  /\ UNCHANGED stepVars

\* new Session(onSessionChange): no session is held; nothing was called yet.
Init ==
  /\ current = undefined
  /\ last = [op |-> "none", arg |-> undefined, pre |-> undefined,
             outcome |-> "returned", error |-> NoError, ret |-> Nothing,
             invoked |-> <<>>, observed |-> <<>>]
  /\ lastTerminal = "none"
  /\ calls = 0
  /\ count = [notify |-> 0, begin |-> 0, update |-> 0, cancel |-> 0]
  /\ cycle = NoCycle
  /\ begun = NotBegun
  /\ frames = <<>>
  /\ ctx = TopLevel
  /\ step = "none"

Begin(session, nOut)         == Step("begin", session, begin(session, nOut))
Update(args, cOut, nOut)     == Step("update", args, update(args, cOut, nOut))
Complete(args, r, cOut)      == Step("complete", args, complete(args, r, cOut))
Cancel(args, cOut, nOut)     == Step("cancel", args, cancel(args, cOut, nOut))
QuietlyComplete              == Step("quietlyComplete", undefined, quietlyComplete)
IsInSession                  == Step("isInSession", undefined, isInSessionGet)

\* every callback the manager invokes returns
Next ==
  \/ \E session \in Sessions, nOut \in Returning : Begin(session, nOut)
  \/ \E args \in Args, cOut \in Returning, nOut \in Returning : Update(args, cOut, nOut)
  \/ \E args \in Args, r \in Results, cOut \in Returning : Complete(args, r, cOut)
  \/ \E args \in Args, cOut \in Returning, nOut \in Returning : Cancel(args, cOut, nOut)
  \/ QuietlyComplete
  \/ IsInSession

Spec == Init /\ [][Next]_vars

\* a callback the manager invokes may also raise
NextRaise ==
  \/ \E session \in Sessions, nOut \in Outcomes : Begin(session, nOut)
  \/ \E args \in Args, cOut \in Outcomes, nOut \in Outcomes : Update(args, cOut, nOut)
  \/ \E args \in Args, r \in Results, cOut \in Outcomes : Complete(args, r, cOut)
  \/ \E args \in Args, cOut \in Outcomes, nOut \in Outcomes : Cancel(args, cOut, nOut)
  \/ QuietlyComplete
  \/ IsInSession

SpecRaise == Init /\ [][NextRaise]_vars

\* =================================================================
\* The same operations, one callback at a time
\* =================================================================
\* A call runs the manager's code up to the next callback it invokes (a
\* session capability or the notifier), waits for the callback to end, and goes
\* on.  While the callback runs the call is a frame on `frames`.  SpecSteps
\* makes calls from the top level only; SpecReentrant also lets the running
\* callback call the manager.

MaxDepth == 2        \* calls in progress at once

NoInvocation == Invocation("none", undefined, undefined, undefined)

\* what a stretch of the manager's code does: the slot it leaves, and how it
\* ends: by invoking a capability or the notifier, by returning or by throwing
EnterCapability(cur, inv) ==
  [cur |-> cur, next |-> "capability", error |-> NoError, ret |-> Nothing, inv |-> inv]
EnterNotifier(cur) ==
  [cur |-> cur, next |-> "notifier", error |-> NoError, ret |-> Nothing, inv |-> NoInvocation]
Return(cur, ret) ==
  [cur |-> cur, next |-> "return", error |-> NoError, ret |-> ret, inv |-> NoInvocation]
Throw(cur, error) ==
  [cur |-> cur, next |-> "raise", error |-> error, ret |-> Nothing, inv |-> NoInvocation]

\* begin, lines 41-48: the guard, the store, the notifier invocation
beginCall(session) ==
  IF current /= undefined
    THEN Throw(current, CannotBeginError)
    ELSE EnterNotifier(session)
\* begin, line 49
beginAfterNotifier == Return(current, This)

\* update, lines 61-67: the guard, the capability invocation
updateCall(args) ==
  IF current = undefined
    THEN Throw(current, NoCurrentSessionError)
    ELSE EnterCapability(current, Invocation("update", current, args, undefined))
\* update, line 68
updateAfterCapability == EnterNotifier(current)
\* Faulty variant of the end of update: the notifier is invoked again.
updateAfterNotifier_again == EnterNotifier(current)
\* update, line 69
updateAfterNotifier == Return(current, This)

\* Faulty variant of the start of complete: the slot is cleared before the
\* session's complete is invoked.
completeCall_clearsFirst(args) ==
  IF current /= undefined
    THEN EnterCapability(undefined, Invocation("complete", current, args, undefined))
    ELSE Return(undefined, Value(undefined))
\* complete, line 81 (and 82-83 when no session is held)
completeCall(args) ==
  IF current /= undefined
    THEN EnterCapability(current, Invocation("complete", current, args, undefined))
    ELSE Return(undefined, Value(undefined))
\* complete, lines 82-83; r is the value the session's complete produced
completeAfterCapability(r) == Return(undefined, Value(r))

\* cancel, line 95 (and 96-97 when no session is held)
cancelCall(args) ==
  IF current /= undefined
    THEN EnterCapability(current, Invocation("cancel", current, args, undefined))
    ELSE EnterNotifier(undefined)
\* Faulty variant of cancel: the notifier is invoked before the slot is cleared.
cancelAfterCapability_notifiesFirst == EnterNotifier(current)
\* cancel, lines 96-97
cancelAfterCapability == EnterNotifier(undefined)
\* cancel, line 98
cancelAfterNotifier == Return(current, This)

\* quietlyComplete, lines 111-112
quietlyCompleteCall == Return(undefined, This)

\* Faulty variant of the propagation of a callback's error: the slot is
\* cleared on the way out, as a finally block would.
callbackThrows_clears == Throw(undefined, CallbackError)
\* a callback's error propagates through the manager, which catches nothing
callbackThrows == Throw(current, CallbackError)

AfterCapability(op, r) ==
  CASE op = "update"   -> updateAfterCapability
    [] op = "complete" -> completeAfterCapability(r)
    [] op = "cancel"   -> cancelAfterCapability

AfterNotifier(op) ==
  CASE op = "begin"  -> beginAfterNotifier
    [] op = "update" -> updateAfterNotifier
    [] op = "cancel" -> cancelAfterNotifier

\* ------------------------------------------------------ calls in progress
Depth == Len(frames)
Top   == frames[Depth]
Below == SubSeq(frames, 1, Depth - 1)

\* where a call made now is made from
Here ==
  IF frames = <<>> THEN TopLevel
  ELSE [depth |-> Depth, in |-> Top.pc, by |-> Top.op, intact |-> Top.intact]

NewCall(op, arg) ==
  [op |-> op, arg |-> arg, pre |-> current, pc |-> "start",
   invoked |-> <<>>, observed |-> <<>>, capDone |-> FALSE,
   from |-> Here, intact |-> TRUE]

\* the frames fs once the slot is cur: a frame stays `intact` until a call made
\* from inside one of its callbacks leaves the slot empty
Mark(fs, cur) ==
  [i \in 1..Len(fs) |-> [fs[i] EXCEPT !.intact = @ /\ cur /= undefined]]

\* The call `call`, made from the callbacks of the frames `rest`, runs the
\* stretch of code `seg`: it ends, or it waits in the callback it invoked.
Run(call, rest, seg) ==
  /\ current' = seg.cur
  /\ IF seg.next \in {"return", "raise"}
       THEN /\ frames' = Mark(rest, seg.cur)
            /\ last' = [op |-> call.op, arg |-> call.arg, pre |-> call.pre,
                        outcome |-> IF seg.next = "return" THEN "returned" ELSE "raised",
                        error |-> seg.error, ret |-> seg.ret,
                        invoked |-> call.invoked, observed |-> call.observed]
            /\ ctx' = call.from
       ELSE /\ frames' = Append(Mark(rest, seg.cur),
                           [call EXCEPT
                              !.pc = seg.next,
                              !.invoked = IF seg.next = "capability"
                                            THEN Append(@, seg.inv) ELSE @,
                              !.observed = IF seg.next = "notifier"
                                             THEN Append(@, seg.cur) ELSE @])
            /\ UNCHANGED <<last, ctx>>
  /\ UNCHANGED callVars

Call(op, arg, seg) ==
  /\ calls < MaxCalls
  /\ calls' = calls + 1
  /\ step' = "call"
  /\ Run(NewCall(op, arg), frames, seg)

CallBegin(session)    == Call("begin", session, beginCall(session))
CallUpdate(args)      == Call("update", args, updateCall(args))
CallComplete(args)    == Call("complete", args, completeCall(args))
CallCancel(args)      == Call("cancel", args, cancelCall(args))
CallQuietlyComplete   == Call("quietlyComplete", undefined, quietlyCompleteCall)

\* the capability the top call invoked returns, producing r (void unless it is complete)
CapabilityReturns(r) ==
  /\ frames /= <<>>
  /\ Top.pc = "capability"
  /\ Top.op = "complete" \/ r = undefined
  /\ step' = "capReturn"
  /\ UNCHANGED calls
  /\ Run([Top EXCEPT !.capDone = TRUE,
                     !.invoked[Len(Top.invoked)].result = r],
         Below, AfterCapability(Top.op, r))

\* the capability the top call invoked raises
CapabilityRaises ==
  /\ frames /= <<>>
  /\ Top.pc = "capability"
  /\ step' = "capRaise"
  /\ UNCHANGED calls
  /\ Run(Top, Below, callbackThrows)

\* the notifier the top call invoked returns
NotifierReturns ==
  /\ frames /= <<>>
  /\ Top.pc = "notifier"
  /\ step' = "notifyReturn"
  /\ UNCHANGED calls
  /\ Run(Top, Below, AfterNotifier(Top.op))

\* the notifier the top call invoked raises
NotifierRaises ==
  /\ frames /= <<>>
  /\ Top.pc = "notifier"
  /\ step' = "notifyRaise"
  /\ UNCHANGED calls
  /\ Run(Top, Below, callbackThrows)

CallbackEnds ==
  \/ \E r \in Results : CapabilityReturns(r)
  \/ CapabilityRaises
  \/ NotifierReturns
  \/ NotifierRaises

\* calls are made from the top level only
NextSteps ==
  \/ \E session \in Sessions : frames = <<>> /\ CallBegin(session)
  \/ \E args \in Args : frames = <<>> /\ CallUpdate(args)
  \/ \E args \in Args : frames = <<>> /\ CallComplete(args)
  \/ \E args \in Args : frames = <<>> /\ CallCancel(args)
  \/ frames = <<>> /\ CallQuietlyComplete
  \/ \E r \in Results : CapabilityReturns(r)
  \/ CapabilityRaises
  \/ NotifierReturns
  \/ NotifierRaises

SpecSteps == Init /\ [][NextSteps]_vars

\* a callback is a synchronous function: once invoked, it ends
SpecStepsFair == SpecSteps /\ WF_vars(CallbackEnds)

\* calls are also made by the callback that is running
NextReentrant ==
  \/ \E session \in Sessions : Depth < MaxDepth /\ CallBegin(session)
  \/ \E args \in Args : Depth < MaxDepth /\ CallUpdate(args)
  \/ \E args \in Args : Depth < MaxDepth /\ CallComplete(args)
  \/ \E args \in Args : Depth < MaxDepth /\ CallCancel(args)
  \/ Depth < MaxDepth /\ CallQuietlyComplete
  \/ \E r \in Results : CapabilityReturns(r)
  \/ CapabilityRaises
  \/ NotifierReturns
  \/ NotifierRaises

SpecReentrant == Init /\ [][NextReentrant]_vars

\* =================================================================
\* Properties
\* =================================================================
Idle   == current = undefined
Active == current /= undefined

Notified == Len(last.observed)      \* notifier invocations made by the last call

\* C1: after any sequence of calls, isInSession is true exactly when the most
\* recent begin/complete/cancel/quietlyComplete call was a begin (one not yet
\* followed by a complete, cancel or quietlyComplete); it is false initially.
C1_InSessionIffLastTerminalIsBegin ==
  isInSession <=> (lastTerminal = "begin")

\* C1 witness: a session was begun again after an earlier one was ended, and an
\* update has been made in it.
C1_Witness ==
  /\ isInSession
  /\ lastTerminal = "begin"
  /\ last.op = "update"
  /\ calls >= 4

\* C2: begin(S2) while S1 is held raises the double-begin error, S1 is still
\* the session held afterwards, and the call invoked no session capability.
C2_SecondBeginRaisesAndKeepsSession ==
  (last.op = "begin" /\ last.pre /= undefined) =>
     /\ last.outcome = "raised"
     /\ last.error = CannotBeginError
     /\ current = last.pre
     /\ last.invoked = <<>>

\* C2 witness: begin was called with another session while one was held.
C2_Witness ==
  /\ last.op = "begin"
  /\ last.pre /= undefined
  /\ last.arg /= last.pre
  /\ current = last.pre

\* C3: update while no session is held raises "No current session." and the
\* manager is Idle afterwards.
C3_UpdateWhenIdleRaises ==
  (last.op = "update" /\ last.pre = undefined) =>
     /\ last.outcome = "raised"
     /\ last.error = NoCurrentSessionError
     /\ Idle

\* C3 witness: update was called on an Idle manager that had held a session before.
C3_Witness ==
  /\ last.op = "update"
  /\ last.pre = undefined
  /\ last.outcome = "raised"
  /\ count.begin >= 1

\* C4: complete(args) while S is held: afterwards the manager is Idle,
\* S.complete was invoked exactly once with args, the call returned exactly the
\* value S.complete produced, and the notifier was not invoked.
C4_CompleteForwardsAndReturnsResult ==
  (last.op = "complete" /\ last.pre /= undefined) =>
     /\ Idle
     /\ Len(last.invoked) = 1
     /\ last.invoked[1].cap = "complete"
     /\ last.invoked[1].target = last.pre
     /\ last.invoked[1].arg = last.arg
     /\ last.outcome = "returned"
     /\ last.ret = Value(last.invoked[1].result)
     /\ Notified = 0

\* C4 witness: complete was called while a session was held, and the session's
\* complete produced a command.
C4_Witness ==
  /\ last.op = "complete"
  /\ last.pre /= undefined
  /\ Len(last.invoked) = 1
  /\ last.invoked[1].result /= undefined
  /\ last.ret = Value(last.invoked[1].result)

\* C5: complete while no session is held does not raise, returns undefined,
\* invokes no session capability, and leaves the manager Idle.
C5_CompleteWhenIdleReturnsUndefined ==
  (last.op = "complete" /\ last.pre = undefined) =>
     /\ last.outcome = "returned"
     /\ last.error = NoError
     /\ last.ret = Value(undefined)
     /\ last.invoked = <<>>
     /\ Idle

\* C5 witness: complete was called on an Idle manager.
C5_Witness ==
  /\ last.op = "complete"
  /\ last.pre = undefined
  /\ last.outcome = "returned"

\* C6: cancel(args) while S is held: afterwards the manager is Idle, S.cancel
\* was invoked exactly once with args and S.complete not at all, and the
\* notifier was invoked exactly once by the call.
C6_CancelForwardsClearsAndNotifies ==
  (last.op = "cancel" /\ last.pre /= undefined) =>
     /\ Idle
     /\ last.invoked = <<Invocation("cancel", last.pre, last.arg, undefined)>>
     /\ Notified = 1

\* C6 witness: cancel was called while a session was held.
C6_Witness ==
  /\ last.op = "cancel"
  /\ last.pre /= undefined
  /\ Len(last.invoked) = 1
  /\ Idle

\* C7 as stated: cancel while no session is held is a no-op (nothing is
\* invoked, nothing changes) that returns the manager itself and raises no error.
C7_CancelWhenIdleIsNoOp ==
  (last.op = "cancel" /\ last.pre = undefined) =>
     /\ last.outcome = "returned"
     /\ last.ret = This
     /\ Idle
     /\ last.invoked = <<>>
     /\ Notified = 0

\* C7 amended: cancel while no session is held invokes no session capability,
\* leaves the manager Idle, returns the manager itself and raises no error,
\* but it does invoke the notifier exactly once.
C7_CancelWhenIdleOnlyNotifies ==
  (last.op = "cancel" /\ last.pre = undefined) =>
     /\ last.outcome = "returned"
     /\ last.error = NoError
     /\ last.ret = This
     /\ Idle
     /\ last.invoked = <<>>
     /\ last.observed = <<undefined>>

\* C7 witness: cancel was called on an Idle manager.
C7_Witness ==
  /\ last.op = "cancel"
  /\ last.pre = undefined
  /\ last.outcome = "returned"

\* C8: the notifier is invoked exactly once by each successful begin, by each
\* successful update and by every cancel call (also one made while Idle), and
\* never by complete, quietlyComplete, a rejected begin or a rejected update;
\* so the total of notifier invocations is the number of successful begins
\* plus successful updates plus cancel calls.
C8_NotificationRule ==
  /\ (last.op \in {"begin", "update"} /\ last.outcome = "returned") => Notified = 1
  /\ (last.op \in {"begin", "update"} /\ last.outcome = "raised") => Notified = 0
  /\ last.op = "cancel" => Notified = 1
  /\ last.op \in {"complete", "quietlyComplete"} => Notified = 0
  /\ count.notify = count.begin + count.update + count.cancel

\* C8 witness: begin, update, complete and then a cancel on the Idle manager.
C8_Witness ==
  /\ last.op = "cancel"
  /\ last.pre = undefined
  /\ count.begin >= 1
  /\ count.update >= 1
  /\ count.notify = 3

\* C9: after quietlyComplete() the manager is Idle, and the call invoked no
\* capability of the session that was held (if any) and not the notifier.
C9_QuietlyCompleteOnlyClears ==
  last.op = "quietlyComplete" =>
     /\ Idle
     /\ last.invoked = <<>>
     /\ Notified = 0

\* C9 witness: quietlyComplete was called while a session was held.
C9_Witness ==
  /\ last.op = "quietlyComplete"
  /\ last.pre /= undefined
  /\ Idle

\* C10: a full cycle begin(S), update(a1), ..., update(an), complete(c) on an
\* Idle manager: S.update was invoked exactly n times, in call order, with
\* a1..an; the notifier fired n+1 times, none of them during completion;
\* S.complete was invoked once with c and S.cancel never; the manager is Idle
\* and complete returned the value S.complete(c) produced.
FullCycle ==
  /\ cycle.pure
  /\ last.op = "complete"
  /\ last.pre /= undefined

C10_FullCycle ==
  FullCycle =>
    LET n == Len(cycle.callArgs) IN
     /\ Len(cycle.invoked) = n + 1
     /\ \A i \in 1..n :
          cycle.invoked[i] =
            Invocation("update", cycle.session, cycle.callArgs[i], undefined)
     /\ cycle.invoked[n + 1].cap = "complete"
     /\ cycle.invoked[n + 1].target = cycle.session
     /\ cycle.invoked[n + 1].arg = last.arg
     /\ cycle.notified = n + 1
     /\ Notified = 0
     /\ Idle
     /\ last.outcome = "returned"
     /\ last.ret = Value(cycle.invoked[n + 1].result)

\* C10 witness: the scenario begin(S), update(a), update(b), complete(c) with
\* a /= b has run.
C10_Witness ==
  /\ FullCycle
  /\ Len(cycle.callArgs) = 2
  /\ cycle.callArgs[1] /= cycle.callArgs[2]
  /\ Len(cycle.invoked) = 3

\* C11: the slot changes only in two ways: a successful begin(S) takes it from
\* absent to S, and complete, cancel and quietlyComplete take it to absent.  A
\* rejected begin, an update (successful or rejected) and reading isInSession
\* leave it as it was; reading isInSession invokes nothing.
Ending == {"complete", "cancel", "quietlyComplete"}

C11_SlotChangesOnlyByBeginAndEnding ==
  /\ current /= last.pre =>
       \/ /\ last.op = "begin"
          /\ last.outcome = "returned"
          /\ last.pre = undefined
          /\ current = last.arg
       \/ /\ last.op \in Ending
          /\ current = undefined
  /\ (last.op = "begin" /\ last.outcome = "returned") => current = last.arg
  /\ last.op \in Ending => current = undefined
  /\ (last.op = "begin" /\ last.outcome = "raised") => current = last.pre
  /\ last.op = "update" => current = last.pre
  /\ last.op = "isInSession" =>
       /\ current = last.pre
       /\ last.ret = Flag(last.pre /= undefined)
       /\ last.invoked = <<>>
       /\ Notified = 0

\* C11 witness: isInSession was read while a session was held, after an update.
C11_Witness ==
  /\ last.op = "isInSession"
  /\ last.pre /= undefined
  /\ last.ret = Flag(TRUE)
  /\ count.update >= 1

\* C12: a successful begin(S) on an Idle manager stores S, invokes the notifier
\* exactly once, invokes no capability of S and returns the manager itself;
\* update and cancel, when they return, return the manager itself too.
C12_BeginStoresNotifiesReturnsThis ==
  /\ (last.op = "begin" /\ last.pre = undefined /\ last.outcome = "returned") =>
       /\ current = last.arg
       /\ Notified = 1
       /\ last.invoked = <<>>
       /\ last.ret = This
  /\ (last.op \in {"update", "cancel"} /\ last.outcome = "returned") =>
       last.ret = This

\* C12 witness: a second session was begun on the manager after the first ended.
C12_Witness ==
  /\ last.op = "begin"
  /\ last.pre = undefined
  /\ last.outcome = "returned"
  /\ last.ret = This
  /\ count.begin >= 2

\* C13: from every reachable state a single complete, cancel or
\* quietlyComplete call leads to Idle; whenever the manager is Idle a begin
\* succeeds; and begin fails only when it is attempted from Active.
C13_ReusableAcrossCycles ==
  /\ \A args \in Args, r \in Results : complete(args, r, "return").cur = undefined
  /\ \A args \in Args : cancel(args, "return", "return").cur = undefined
  /\ quietlyComplete.cur = undefined
  /\ Idle => \A session \in Sessions :
               /\ begin(session, "return").outcome = "returned"
               /\ begin(session, "return").cur = session
  /\ (last.op = "begin" /\ last.outcome = "raised") => last.pre /= undefined

\* C13 witness: two cycles have been run on the manager, and it is Idle again.
C13_Witness ==
  /\ count.begin >= 2
  /\ last.op \in Ending
  /\ last.pre /= undefined
  /\ Idle

\* C15: a call rejected with the manager's own error (a begin while a session
\* is held, an update while none is) invokes neither the notifier nor any
\* session capability and leaves the slot unchanged.
Rejected ==
  \/ last.op = "begin" /\ last.pre /= undefined
  \/ last.op = "update" /\ last.pre = undefined

C15_RejectedCallHasNoEffect ==
  /\ Rejected =>
       /\ last.outcome = "raised"
       /\ last.error \in {CannotBeginError, NoCurrentSessionError}
       /\ Notified = 0
       /\ last.invoked = <<>>
       /\ current = last.pre
  /\ last.error \in {CannotBeginError, NoCurrentSessionError} => Rejected

\* C15 witness: a begin was rejected after the held session had been updated.
C15_Witness ==
  /\ last.error = CannotBeginError
  /\ count.update >= 1
  /\ count.notify = 2

AtMostOneOfEach(c) ==
  /\ Len(c.invoked) <= 1
  /\ Len(c.observed) <= 1

C14_CallsRunToCompletion ==
  /\ [](/\ \A i \in 1..Depth : AtMostOneOfEach(frames[i])
        /\ AtMostOneOfEach(last)
        /\ Depth <= 1
        /\ step \in {"capRaise", "notifyReturn", "notifyRaise"} => frames = <<>>)
  /\ (frames /= <<>>) ~> (frames = <<>>)

\* C14 witness: an update has invoked the capability, then the notifier, and
\* has returned; no call is in progress.
C14_Witness ==
  /\ step = "notifyReturn"
  /\ last.op = "update"
  /\ last.outcome = "returned"
  /\ Len(last.invoked) = 1
  /\ Len(last.observed) = 1
  /\ frames = <<>>

\* C16: when the held session's update, complete or cancel raises while being
\* forwarded, the error reaches the caller, the notifier is not invoked by that
\* call, and the session is not cleared: the manager stays Active with the
\* same session, so a following begin still fails.
C16_RaisingCapabilityKeepsSession ==
  step = "capRaise" =>
     /\ frames = <<>>
     /\ last.op \in {"update", "complete", "cancel"}
     /\ last.outcome = "raised"
     /\ last.error = CallbackError
     /\ last.observed = <<>>
     /\ Len(last.invoked) = 1
     /\ last.invoked[1].target = last.pre
     /\ current = last.pre
     /\ current /= undefined
     /\ \A session \in Sessions : beginCall(session) = Throw(current, CannotBeginError)

\* C16 witness: the held session's complete raised.
C16_Witness ==
  /\ step = "capRaise"
  /\ last.op = "complete"
  /\ last.outcome = "raised"
  /\ current = last.pre

\* C18: the notifier observes the state after the operation: invoked by begin,
\* the new session is already stored; invoked by update, the session's update
\* has returned and the session is still held; invoked by cancel, the
\* session's cancel (if a session was held) has returned and the slot is empty.
NotifierSeesResult(f) ==
  /\ f.observed = <<current>>
  /\ f.op = "begin" =>
       /\ current = f.arg
       /\ isInSession
  /\ f.op = "update" =>
       /\ f.capDone
       /\ f.invoked = <<Invocation("update", f.pre, f.arg, undefined)>>
       /\ current = f.pre
       /\ isInSession
  /\ f.op = "cancel" =>
       /\ ~isInSession
       /\ f.pre /= undefined =>
            /\ f.capDone
            /\ f.invoked = <<Invocation("cancel", f.pre, f.arg, undefined)>>

C18_NotifierObservesPostState ==
  \A i \in 1..Depth :
     frames[i].pc = "notifier" =>
        /\ frames[i].op \in {"begin", "update", "cancel"}
        /\ NotifierSeesResult(frames[i])

\* C18 witness: the notifier is running, invoked by the cancel of a held session.
C18_Witness ==
  /\ frames /= <<>>
  /\ Top.pc = "notifier"
  /\ Top.op = "cancel"
  /\ Top.pre /= undefined
  /\ Top.capDone

\* C19 as stated: while a session capability runs, and while the notifier
\* fired by begin or update runs, the slot is occupied, so a begin made from
\* inside such a callback raises the double-begin error and leaves the slot
\* as it is.
Guarded(pc, op) ==
  \/ pc = "capability"
  \/ pc = "notifier" /\ op \in {"begin", "update"}

C19_BeginFromCallbackRaises ==
  /\ \A i \in 1..Depth :
       /\ Guarded(frames[i].pc, frames[i].op) => current /= undefined
       /\ ~(frames[i].op = "begin" /\ Guarded(frames[i].from.in, frames[i].from.by))
  /\ (last.op = "begin" /\ Guarded(ctx.in, ctx.by)) =>
       /\ last.outcome = "raised"
       /\ last.error = CannotBeginError

\* C19 amended: the manager's own code keeps the slot occupied while such a
\* callback runs (complete and cancel clear it only after the capability has
\* returned).  So, as long as no call made from inside a callback of the same
\* operation has left the slot empty, the slot is occupied and a begin made
\* from inside the callback raises the double-begin error and leaves the slot
\* as it is.
C19_BeginFromIntactCallbackRaises ==
  /\ \A i \in 1..Depth :
       /\ (Guarded(frames[i].pc, frames[i].op) /\ frames[i].intact) =>
            current /= undefined
       /\ (frames[i].pc = "capability" /\ frames[i].intact) =>
            /\ ~frames[i].capDone
            /\ current = frames[i].pre
       /\ ~(/\ frames[i].op = "begin"
            /\ Guarded(frames[i].from.in, frames[i].from.by)
            /\ frames[i].from.intact)
  /\ (last.op = "begin" /\ Guarded(ctx.in, ctx.by) /\ ctx.intact) =>
       /\ last.outcome = "raised"
       /\ last.error = CannotBeginError
       /\ last.invoked = <<>>
       /\ last.observed = <<>>

\* C19 witness: a begin made from inside the held session's running complete
\* was rejected, and the session is still held.
C19_Witness ==
  /\ step = "call"
  /\ last.op = "begin"
  /\ last.error = CannotBeginError
  /\ ctx.in = "capability"
  /\ ctx.by = "complete"
  /\ ctx.intact
  /\ Depth = 1
  /\ current = Top.pre

====
